---- MODULE Spec2Model ----
(***************************************************************************)
(* Data pipeline of the CRRI chatbot: the orchestrator script              *)
(* scripts/run_full_pipeline.sh, and the retention cleanup it invokes      *)
(* (scripts/cleanup_old_data.py, described by spec.md 4.1 and 4.2).        *)
(*                                                                         *)
(* Time is counted in days.  A managed file is a record                    *)
(*   [dir, base, ts]: its directory, the name pattern its file name has,   *)
(*   and the timestamp embedded in its name (or its modification time).    *)
(***************************************************************************)
EXTENDS Integers, Sequences, FiniteSets, TLC

\* ------------------------------------------------------------------ bounds
MaxExit  == 2    \* exit codes of an external command range over 0..MaxExit
MaxRuns  == 2    \* pipeline runs started one after the other
MaxStamp == 2    \* timestamps of the files present before the first step
MaxFiles == 3    \* files in the managed directories (retention engine)
MaxPre   == 1    \* files present before the first pipeline run, besides contacts.pdf
MaxSends == 2    \* chat requests sent in a session of the frontend
MaxSegs  == 3    \* pieces a message text is put together from
MaxClock == 1    \* seconds that pass while the instances of the script start

\* --------------------------------------------------------- program constants
RetentionDays == 7

ProtectedName == "contacts.pdf"

ScraperCats == {"staff_org", "news", "equipment", "tenders", "events"}

KeepLatestCats == ScraperCats \cup {"knowledge_base"}

Cats == KeepLatestCats \cup {"log"}

Dirs == {"raw", "processed", "logs"}

\* the order in which a plan lists the categories
CatOrder == <<"staff_org", "news", "equipment", "tenders", "events", "knowledge_base", "log">>

\* file names in lexicographic order of their fixed part
NameOrder == <<".gitkeep", "contacts.pdf", "knowledge_base", "log", "equipment", "events", "news", "staff_org", "tenders">>

\* the stages with upload ahead of process
StagesUploadFirst == <<"cleanup_pre", "staff_org", "news", "equipment", "tenders", "events", "upload", "process", "cleanup_post">>

\* the stages with the final cleanup ahead of process
StagesCleanupEarly == <<"cleanup_pre", "staff_org", "news", "equipment", "tenders", "events", "cleanup_post", "process", "upload">>

Stages == <<"cleanup_pre", "staff_org", "news", "equipment", "tenders", "events", "process", "upload", "cleanup_post">>

CleanupStages == {"cleanup_pre", "cleanup_post"}

MandatoryStages == ScraperCats \cup {"process", "upload"}

ExitCodes == 0..MaxExit

NoRc == -1

StartDay == RetentionDays + 1

VARIABLES
    pc,        \* position of the script: "boot", "launch", "running", "check", "banner", "done"
    stage,     \* index in Stages of the step the script is at (0 before STEP 1)
    status,    \* $? of the last external command
    exitCode,  \* exit code of the script, NoRc while it runs
    logf,      \* lines of $LOG_FILE of the current run, in order
    started,   \* stages whose command was started in the current run, in order
    results,   \* exit code of each stage's command in the current run, NoRc if none
    runs,      \* number of runs started
    fs,        \* the files of data/raw, data/processed and data/logs
    now,       \* current day
    collide,   \* the category whose pattern also matches the protected name, or "none"
    plan,      \* the last DeletionPlan computed
    planFor,   \* the directory listing and time the last plan was computed for
    report,    \* the last ExecutionReport
    phase,     \* what the last calls of the retention engine and the janitor were
    messages,  \* ChatContainer: the messages state, each [text, sender]
    inputText, \* ChatContainer: the inputText state
    isLoading, \* ChatContainer: the isLoading state
    timers,    \* pending setTimeout callbacks of handleSuggestedQuestion, oldest first
    inflight,  \* calls of sendMessageToAPI that have not returned
    console,   \* what console.error has printed, in order
    nextReq,   \* number of chat requests sent so far
    bmsg,      \* MessageBubble: the message prop, [text, sender]
    bubble,    \* MessageBubble: what it renders, NotRendered before
    logName,   \* $LOG_FILE of the current run: the day and second it started at
    other,     \* the script state of a second instance of the script, while the first one runs
    clock      \* current second of the day

chatVars == <<messages, inputText, isLoading, timers, inflight, console, nextReq>>

bubbleVars == <<bmsg, bubble>>

concVars == <<other, clock>>

extVars == <<chatVars, bubbleVars, concVars>>

vars == <<pc, stage, status, exitCode, logf, started, results, runs, logName, fs, now, collide, plan, planFor, report, phase, extVars>>

pipeVars == <<pc, stage, status, exitCode, logf, started, results, runs, logName>>

retVars == <<plan, planFor, report, phase>>

\* ------------------------------------------------------------- managed files
File(d, b, t) == [dir |-> d, base |-> b, ts |-> t]

HomeDir(b) ==
    IF b \in ScraperCats THEN "raw"
    ELSE IF b = "log" THEN "logs"
    ELSE "processed"

ProtectedFiles == {File("processed", ProtectedName, t) : t \in 0..MaxStamp}

\* files that can be there before the first step: outputs of earlier runs,
\* the permanent document and the .gitkeep placeholders
RECURSIVE SubsetsUpTo(_, _)
SubsetsUpTo(U, n) ==
    IF n = 0 THEN {{}}
    ELSE LET smaller == SubsetsUpTo(U, n - 1)
         IN  smaller \cup {S \cup {x} : S \in smaller, x \in U}

\* the categories of the files present before the first step
InitCats == {"staff_org", "news", "knowledge_base", "log"}

InitUniverse ==
    {File(HomeDir(b), b, t) : b \in InitCats, t \in 0..MaxStamp}
        \cup ProtectedFiles
        \cup {File(d, ".gitkeep", 0) : d \in Dirs}

\* what earlier runs can have left behind when the pipeline starts
PreUniverse ==
    {File("raw", "news", 0), File("raw", "news", 1), File("processed", "knowledge_base", 0),
     File("logs", "log", 0), File("logs", "log", 1), File("raw", ".gitkeep", 0)}

RECURSIVE IndexOf(_, _, _)
IndexOf(seq, x, i) ==
    IF i > Len(seq) THEN 0
    ELSE IF seq[i] = x THEN i
    ELSE IndexOf(seq, x, i + 1)

NameRank(f) == IndexOf(NameOrder, f.base, 1)

Range(seq) == {seq[i] : i \in 1..Len(seq)}

\* -------------------------------------------------- retention policy engine
IsProtected(f) == f.base = ProtectedName

\* the category whose file name pattern matches the name of f, "none" if no pattern does
MatchPattern(f) ==
    IF f.base \in Cats THEN f.base
    ELSE IF f.base = ProtectedName THEN collide
    ELSE "none"

\* classification by pattern alone
ClassifyUnprotected(f) == MatchPattern(f)

\* the protection check comes first and short-circuits the classification
Classify(f) == IF IsProtected(f) THEN "protected" ELSE MatchPattern(f)

RuleMode(c) == IF c = "log" THEN "keep-within-duration" ELSE "keep-latest-1"

\* f sorts before g: later timestamp first, ties by file name
Newer(f, g) == f.ts > g.ts \/ (f.ts = g.ts /\ NameRank(f) > NameRank(g))

RECURSIVE SortNewestFirst(_)
SortNewestFirst(S) ==
    IF S = {} THEN <<>>
    ELSE LET m == CHOOSE f \in S : \A g \in S \ {f} : Newer(f, g)
         IN  <<m>> \o SortNewestFirst(S \ {m})

Entries(seq, why) == [i \in 1..Len(seq) |-> [file |-> seq[i], reason |-> why]]

\* keeps the last of the sorted files instead of the first
AllButLast(sorted) == IF sorted = <<>> THEN <<>> ELSE SubSeq(sorted, 1, Len(sorted) - 1)

AllButFirst(sorted) == IF sorted = <<>> THEN <<>> ELSE Tail(sorted)

KeepLatestPlan(L, c) ==
    Entries(AllButFirst(SortNewestFirst({f \in L : Classify(f) = c})), "stale")

\* also expires a file that is exactly RetentionDays old
ExpiredInclusive(f, t) == f.ts <= t - RetentionDays

\* older than now - duration
Expired(f, t) == f.ts < t - RetentionDays

DurationPlan(L, c, t) ==
    Entries(SortNewestFirst({f \in L : Classify(f) = c /\ Expired(f, t)}), "expired")

PlanCat(L, c, t) ==
    IF RuleMode(c) = "keep-latest-1" THEN KeepLatestPlan(L, c) ELSE DurationPlan(L, c, t)

RECURSIVE PlanFrom(_, _, _)
PlanFrom(L, t, i) ==
    IF i > Len(CatOrder) THEN <<>>
    ELSE PlanCat(L, CatOrder[i], t) \o PlanFrom(L, t, i + 1)

\* plan(directory, rules): L is the listing of the directory, t the current time
Plan(L, t) == PlanFrom(L, t, 1)

Listing(files, d) == {f \in files : f.dir = d}

PlanFiles(p) == {p[i].file : i \in 1..Len(p)}

\* ------------------------------------------------------------- file janitor
\* execute(plan): files is the file system, failing the files whose deletion fails
RECURSIVE Exec(_, _, _, _, _)
Exec(p, i, files, failing, rep) ==
    IF i > Len(p) THEN [fs |-> files, report |-> rep]
    ELSE LET f == p[i].file IN
         IF IsProtected(f) THEN Exec(p, i + 1, files, failing, rep)
         ELSE IF f \notin files \/ f \in failing
              THEN Exec(p, i + 1, files, failing, Append(rep, [file |-> f, outcome |-> "skipped"]))
              ELSE Exec(p, i + 1, files \ {f}, failing, Append(rep, [file |-> f, outcome |-> "deleted"]))

\* reports the deletions without removing the files
ExecuteReportOnly(p, files, failing) == [fs |-> files, report |-> Exec(p, 1, files, failing, <<>>).report]

Execute(p, files, failing) == Exec(p, 1, files, failing, <<>>)

\* cleanup_old_data.py: one retention pass over the three managed directories
FullPlan(files, t) ==
    Plan(Listing(files, "raw"), t) \o Plan(Listing(files, "processed"), t) \o Plan(Listing(files, "logs"), t)

\* ------------------------------------------------------ pipeline orchestrator
Line(k, s) == [k |-> k, s |-> s]

\* set -e: the shell exits as soon as a simple command returns nonzero
ErrExit == TRUE

\* takes status 1 for a success
IsFailureAboveOne(rc) == rc > 1

\* a command failed when its exit status is not 0
IsFailure(rc) == rc # 0

\* the lines log() writes before it starts the command of stage i
LaunchLines(i) ==
    IF Stages[i] = "staff_org"
    THEN <<Line("step", "scrapers"), Line("step", Stages[i])>>
    ELSE <<Line("step", Stages[i])>>

\* the lines log() writes in the then-branch of stage i
OkLines(i) ==
    IF Stages[i] = "events"
    THEN <<Line("ok", Stages[i]), Line("ok", "scrapers")>>
    ELSE <<Line("ok", Stages[i])>>

\* what can go wrong in the cleanup command of stage s that exits with rc: the
\* deletion of one file fails, which the janitor absorbs, or (rc nonzero) the
\* command dies after a prefix of its plan and the rest is not deleted
CleanupFailures(s, rc) ==
    IF s \in CleanupStages
    THEN LET p == FullPlan(fs, now)
         IN  {{}} \cup {{p[i].file} : i \in 1..Len(p)}
                 \cup (IF IsFailure(rc)
                        THEN {PlanFiles(SubSeq(p, k + 1, Len(p))) : k \in 0..Len(p)}
                        ELSE {})
    ELSE {{}}

\* the files in the managed directories once the command of stage s exited with rc;
\* failing are the files the cleanup did not delete (deletion error, or the
\* command died before it got to them)
StageEffect(s, rc, failing) ==
    IF s \in CleanupStages THEN Execute(FullPlan(fs, now), fs, failing).fs
    ELSE IF IsFailure(rc) \/ s = "upload" THEN fs
    ELSE IF s = "process" THEN fs \cup {File("processed", "knowledge_base", now)}
    ELSE fs \cup {File("raw", s, now)}

\* the execution report the janitor of a cleanup stage writes to the log
StageReport(s, failing) ==
    IF s \in CleanupStages THEN Execute(FullPlan(fs, now), fs, failing).report ELSE report

NoResults == [s \in Range(Stages) |-> NoRc]

\* pipeline_$(date +%Y%m%d_%H%M%S).log
LogNameAt(day, sec) == [day |-> day, sec |-> sec]

NoName == [day |-> 0, sec |-> 0]

\* lines 8-22: LOG_FILE is named after the start time; the banner creates it
Boot ==
    /\ pc = "boot"
    /\ logName' = LogNameAt(now, clock)
    /\ logf' = <<Line("rule", "start"), Line("starting", "start"), Line("rule", "start")>>
    /\ fs' = fs \cup {File("logs", "log", now)}
    /\ stage' = 1
    /\ pc' = "launch"
    /\ UNCHANGED <<status, exitCode, started, results, runs, now, collide, retVars, extVars>>

\* the stage's command is started only while the other instance is in none
StageLaunchLocked ==
    /\ pc = "launch"
    /\ other.pc # "running"
    /\ logf' = logf \o LaunchLines(stage)
    /\ started' = Append(started, Stages[stage])
    /\ pc' = "running"
    /\ UNCHANGED <<stage, status, exitCode, results, runs, logName, fs, now, collide, retVars, extVars>>

\* log "STEP ..." and start the stage's command
StageLaunch ==
    /\ pc = "launch"
    /\ logf' = logf \o LaunchLines(stage)
    /\ started' = Append(started, Stages[stage])
    /\ pc' = "running"
    /\ UNCHANGED <<stage, status, exitCode, results, runs, logName, fs, now, collide, retVars, extVars>>

\* the stage's command, its output appended to LOG_FILE, returns rc
StageExit(rc) ==
    /\ pc = "running"
    /\ \E failing \in CleanupFailures(Stages[stage], rc) :
          /\ fs' = StageEffect(Stages[stage], rc, failing)
          /\ report' = StageReport(Stages[stage], failing)
    /\ logf' = Append(logf, Line("out", Stages[stage]))
    /\ results' = [results EXCEPT ![Stages[stage]] = rc]
    /\ status' = rc
    /\ IF ErrExit /\ IsFailure(rc)
       THEN pc' = "done" /\ exitCode' = rc
       ELSE pc' = "check" /\ exitCode' = exitCode
    /\ UNCHANGED <<stage, started, runs, logName, now, collide, plan, planFor, phase, extVars>>

\* if [ $? -eq 0 ]; then log ok; else log failed; exit 1 (not for the cleanups); fi
StageCheck ==
    /\ pc = "check"
    /\ IF ~IsFailure(status)
       THEN /\ logf' = logf \o OkLines(stage)
            /\ exitCode' = exitCode
            /\ IF stage < Len(Stages)
               THEN pc' = "launch" /\ stage' = stage + 1
               ELSE pc' = "banner" /\ stage' = stage
       ELSE /\ logf' = Append(logf, Line("fail", Stages[stage]))
            /\ IF Stages[stage] \in MandatoryStages
               THEN pc' = "done" /\ exitCode' = 1 /\ stage' = stage
               ELSE /\ exitCode' = exitCode
                    /\ IF stage < Len(Stages)
                       THEN pc' = "launch" /\ stage' = stage + 1
                       ELSE pc' = "banner" /\ stage' = stage
    /\ UNCHANGED <<status, started, results, runs, logName, fs, now, collide, retVars, extVars>>

\* lines 113-116: the success banner; the script ends with the status of the last log
Banner ==
    /\ pc = "banner"
    /\ logf' = logf \o <<Line("rule", "end"), Line("success", "end"), Line("logfile", "end"), Line("rule", "end")>>
    /\ pc' = "done"
    /\ exitCode' = 0
    /\ UNCHANGED <<stage, status, started, results, runs, logName, fs, now, collide, retVars, extVars>>

\* the scheduler starts the script again on a later day
NewRun ==
    /\ pc = "done"
    /\ runs < MaxRuns
    /\ runs' = runs + 1
    /\ now' = now + 1
    /\ pc' = "boot"
    /\ stage' = 0
    /\ status' = 0
    /\ exitCode' = NoRc
    /\ logf' = <<>>
    /\ started' = <<>>
    /\ results' = NoResults
    /\ logName' = NoName
    /\ report' = <<>>
    /\ UNCHANGED <<fs, collide, plan, planFor, phase, extVars>>

Idle == [st |-> "idle", arg |-> "none"]

NoPlan == [dir |-> "none", listing |-> {}, at |-> 0]

\* ChatContainer when it is mounted
InitChat ==
    /\ messages = <<>>
    /\ inputText = <<>>
    /\ isLoading = FALSE
    /\ timers = <<>>
    /\ inflight = {}
    /\ console = <<>>
    /\ nextReq = 0

InitPipeIdle ==
    /\ pc = "boot"
    /\ stage = 0
    /\ status = 0
    /\ exitCode = NoRc
    /\ logf = <<>>
    /\ started = <<>>
    /\ results = NoResults
    /\ runs = 1
    /\ logName = NoName
    /\ now = StartDay
    /\ plan = <<>>
    /\ planFor = NoPlan
    /\ report = <<>>
    /\ phase = Idle

NotRendered == [st |-> "none"]

\* no MessageBubble is mounted
InitBubbleIdle ==
    /\ bmsg = [text |-> <<>>, sender |-> "none"]
    /\ bubble = NotRendered

\* a second instance of the script, not started
NotStarted ==
    [pc |-> "boot", stage |-> 0, status |-> 0, exitCode |-> NoRc, logf |-> <<>>, started |-> <<>>,
     results |-> NoResults, logName |-> NoName]

InitConcIdle ==
    /\ other = NotStarted
    /\ clock = 0

InitCommon ==
    /\ InitPipeIdle
    /\ InitChat
    /\ InitBubbleIdle
    /\ InitConcIdle

\* the pipeline starts with the documented patterns (scraped_*.json,
\* knowledge_base_*.jsonl, pipeline_*.log), none of which matches contacts.pdf
Init ==
    /\ InitCommon
    /\ collide = "none"
    /\ \E pre \in SubsetsUpTo(PreUniverse, MaxPre) :
          fs = pre \cup {File("processed", ProtectedName, 0)}

Next ==
    \/ Boot
    \/ StageLaunch
    \/ \E rc \in ExitCodes : StageExit(rc)
    \/ StageCheck
    \/ Banner
    \/ NewRun

Spec == Init /\ [][Next]_vars

\* --------------------------------- the retention engine and the janitor alone
\* plan(directory, rules) on the directory d
RPlan(d) ==
    /\ plan' = Plan(Listing(fs, d), now)
    /\ planFor' = [dir |-> d, listing |-> Listing(fs, d), at |-> now]
    /\ phase' = IF phase.arg = d /\ phase.st = "passed" THEN [st |-> "replanned", arg |-> d]
                ELSE IF phase.arg = d /\ phase.st \in {"planned", "twice", "replanned"}
                     THEN [st |-> "twice", arg |-> d]
                ELSE [st |-> "planned", arg |-> d]
    /\ UNCHANGED <<fs, now, collide, report, pipeVars, extVars>>

\* execute(plan) on the last plan computed; the deletions of failing fail
RExecute(failing) ==
    /\ planFor # NoPlan
    /\ fs' = Execute(plan, fs, failing).fs
    /\ report' = Execute(plan, fs, failing).report
    /\ phase' = IF phase.st \in {"planned", "twice", "replanned"} /\ failing = {}
                THEN [st |-> "passed", arg |-> phase.arg]
                ELSE Idle
    /\ UNCHANGED <<now, collide, plan, planFor, pipeVars, extVars>>

\* execute(plan) on a plan of an earlier session, made before f was
\* reclassified, which still names f
RExecuteStale(f) ==
    /\ planFor = NoPlan
    /\ f \in fs
    /\ fs' = Execute(<<[file |-> f, reason |-> "stale"]>>, fs, {}).fs
    /\ report' = Execute(<<[file |-> f, reason |-> "stale"]>>, fs, {}).report
    /\ phase' = [st |-> "stale", arg |-> f.base]
    /\ UNCHANGED <<now, collide, plan, planFor, pipeVars, extVars>>

\* a scraper, the processor or a pipeline run writes its timestamped file
\* (of one of the categories InitCats)
RArrive(b) ==
    /\ Cardinality(fs) < MaxFiles
    /\ File(HomeDir(b), b, now) \notin fs
    /\ fs' = fs \cup {File(HomeDir(b), b, now)}
    /\ phase' = Idle
    /\ plan' = <<>>
    /\ planFor' = NoPlan
    /\ report' = <<>>
    /\ UNCHANGED <<now, collide, pipeVars, extVars>>

\* any rule table: the protected name may match the pattern of a category;
\* one of the directories holds files of earlier runs
InitRetention ==
    /\ InitCommon
    /\ collide \in {"none", "knowledge_base", "log"}
    /\ \E d \in Dirs :
          fs \in {S \in SubsetsUpTo(Listing(InitUniverse, d), MaxFiles) :
                     Cardinality(S \cap ProtectedFiles) <= 1}

NextRetention ==
    \/ \E d \in Dirs : RPlan(d)
    \/ \E failing \in SUBSET PlanFiles(plan) : RExecute(failing)
    \/ \E f \in fs : RExecuteStale(f)
    \/ \E b \in InitCats : RArrive(b)

SpecRetention == InitRetention /\ [][NextRetention]_vars

\* ------------------------------------------------ the chat frontend
\* a text is a sequence of tokens; Ws is a whitespace character
Ws == "w"

RECURSIVE TrimStart(_)
TrimStart(t) == IF t # <<>> /\ Head(t) = Ws THEN TrimStart(Tail(t)) ELSE t

RECURSIVE TrimEnd(_)
TrimEnd(t) == IF t # <<>> /\ t[Len(t)] = Ws THEN TrimEnd(SubSeq(t, 1, Len(t) - 1)) ELSE t

\* only the whitespace at the start is removed
TrimStartOnly(t) == TrimStart(t)

\* String.prototype.trim
Trim(t) == TrimEnd(TrimStart(t))

GenericError == <<"Sorry, I couldn't get a response. Please try again.">>

NoAnswer == <<"No answer provided.">>

DefaultDetail == <<"Failed to get response">>

\* what the user can have typed into the textarea
Typed == {<<>>, <<Ws>>, <<"q">>, <<Ws, "q", Ws>>}

\* the texts of the suggestion cards
Suggestions == {<<"s1">>, <<"s2">>}

\* what fetch can come back with: a rejection, or a response with a status
\* and a body that is JSON (with its answer and detail fields) or is not
NoResp == [kind |-> "none", ok |-> FALSE, status |-> "0", parsable |-> FALSE, answer |-> <<>>, detail |-> <<>>]

NetworkFailure == [kind |-> "network", ok |-> FALSE, status |-> "0", parsable |-> FALSE, answer |-> <<>>, detail |-> <<>>]

HttpResponses ==
    {[kind |-> "http", ok |-> TRUE, status |-> "200", parsable |-> TRUE, answer |-> a, detail |-> <<>>] :
        a \in {<<>>, <<"a">>}}
    \cup {[kind |-> "http", ok |-> FALSE, status |-> "500", parsable |-> TRUE, answer |-> <<>>, detail |-> d] :
        d \in {<<>>, <<"d">>}}
    \cup {[kind |-> "http", ok |-> o, status |-> IF o THEN "200" ELSE "500", parsable |-> FALSE,
           answer |-> <<>>, detail |-> <<>>] : o \in BOOLEAN}

Responses == {NetworkFailure} \cup HttpResponses

\* the error message with the default text whatever the body said
ApiErrorNoDetail(resp) == <<"API Error", resp.status>> \o DefaultDetail

\* `API Error (${response.status}): ${errorData.detail || 'Failed to get response'}`
ApiError(resp) ==
    <<"API Error", resp.status>> \o (IF resp.parsable /\ resp.detail # <<>> THEN resp.detail ELSE DefaultDetail)

\* sendMessageToAPI once fetch has come back with resp: the answer it returns
\* or the error it throws, and what it prints on the console
sendMessageToAPI(resp) ==
    IF resp.kind = "network"
    THEN [thrown |-> TRUE, value |-> <<"Failed to fetch">>,
          logged |-> <<[by |-> "api", text |-> <<"Failed to fetch">>]>>]
    ELSE IF ~resp.ok
    THEN [thrown |-> TRUE, value |-> ApiError(resp),
          logged |-> <<[by |-> "api", text |-> <<"API request failed", resp.status>> \o resp.detail],
                       [by |-> "api", text |-> ApiError(resp)]>>]
    ELSE IF ~resp.parsable
    THEN [thrown |-> TRUE, value |-> <<"SyntaxError">>,
          logged |-> <<[by |-> "api", text |-> <<"SyntaxError">>]>>]
    ELSE [thrown |-> FALSE, value |-> IF resp.answer # <<>> THEN resp.answer ELSE NoAnswer,
          logged |-> <<>>]

\* the bot message showing whatever the call produced, the error message included
BotTextShowsError(res) == res.value

\* the text of the bot message appended for the outcome res of the call
BotText(res) == IF res.thrown THEN GenericError ELSE res.value

\* newMessages.map(msg => ({role: ..., content: msg.text}))
ToHistory(msgs) ==
    [i \in 1..Len(msgs) |->
        [role |-> IF msgs[i].sender = "user" THEN "user" ELSE "assistant", content |-> msgs[i].text]]

baseVars == <<pipeVars, fs, now, collide, retVars, concVars>>

chatRest == <<baseVars, bubbleVars>>

\* the user message is put after base, the input is cleared, isLoading is
\* set and the request is sent; shown is what is on display when that happens
SendFrom(base, question) ==
    LET newMessages == Append(base, [text |-> question, sender |-> "user"])
    IN  /\ messages' = newMessages
        /\ inputText' = <<>>
        /\ isLoading' = TRUE
        /\ nextReq' = nextReq + 1
        /\ inflight' = inflight \cup {[id |-> nextReq + 1, question |-> question, shown |-> messages,
                                       history |-> ToHistory(newMessages), resp |-> NoResp]}

handleSend ==
    LET question == Trim(inputText)
    IN  /\ IF question = <<>> \/ isLoading
           THEN UNCHANGED chatVars
           ELSE /\ Len(timers) + nextReq < MaxSends
                /\ SendFrom(messages, question)
                /\ UNCHANGED <<timers, console>>
        /\ UNCHANGED chatRest

\* the textarea is disabled while isLoading
handleInputChange(v) ==
    /\ ~isLoading
    /\ inputText' = v
    /\ UNCHANGED <<messages, isLoading, timers, inflight, console, nextReq, chatRest>>

\* a click on a suggestion card, shown while there is no message
handleSuggestedQuestion(q) ==
    /\ Len(messages) = 0
    /\ Len(timers) + nextReq < MaxSends
    /\ inputText' = q
    /\ timers' = Append(timers, [question |-> q, closure |-> messages])
    /\ UNCHANGED <<messages, isLoading, inflight, console, nextReq, chatRest>>

\* the callback of the oldest pending setTimeout runs
TimerFire ==
    /\ timers # <<>>
    /\ SendFrom(Head(timers).closure, Head(timers).question)
    /\ timers' = Tail(timers)
    /\ UNCHANGED <<console, chatRest>>

\* fetch comes back for the request r
Respond(r, resp) ==
    /\ r \in inflight
    /\ r.resp = NoResp
    /\ inflight' = (inflight \ {r}) \cup {[r EXCEPT !.resp = resp]}
    /\ UNCHANGED <<messages, inputText, isLoading, timers, console, nextReq, chatRest>>

\* the handler resumes after its await: try / catch / finally
Settle(r) ==
    /\ r \in inflight
    /\ r.resp # NoResp
    /\ LET res == sendMessageToAPI(r.resp)
       IN  /\ messages' = Append(messages, [text |-> BotText(res), sender |-> "bot"])
           /\ console' = console \o res.logged \o
                  (IF res.thrown THEN <<[by |-> "ChatContainer", text |-> res.value]>> ELSE <<>>)
    /\ isLoading' = FALSE
    /\ inflight' = inflight \ {r}
    /\ UNCHANGED <<inputText, timers, nextReq, chatRest>>

InitChatOnly ==
    /\ InitCommon
    /\ collide = "none"
    /\ fs = {File("processed", ProtectedName, 0)}

NextChat ==
    \/ handleSend
    \/ \E v \in Typed : handleInputChange(v)
    \/ \E q \in Suggestions : handleSuggestedQuestion(q)
    \/ TimerFire
    \/ \E r \in inflight, resp \in Responses : Respond(r, resp)
    \/ \E r \in inflight : Settle(r)

SpecChat == InitChatOnly /\ [][NextChat]_vars

\* ------------------------------------------------- properties of the pipeline
Failed(s) == results[s] \notin {NoRc, 0}

Passed(s) == results[s] = 0

HasStarted(s) == s \in Range(started)

Logged(k, s) == Line(k, s) \in Range(logf)

Completed == pc = "done" /\ exitCode = 0 /\ Logged("success", "end")

Aborted == pc = "done" /\ exitCode # 0 /\ ~Logged("success", "end")

\* C1: process starts only after all five scrapers exited zero in this run, and
\* upload only after the five scrapers and process exited zero: a failing
\* scraper or a failing process stage keeps the later stages from starting.
ThmFailFast ==
    /\ HasStarted("process") => \A s \in ScraperCats : Passed(s)
    /\ HasStarted("upload") => \A s \in ScraperCats \cup {"process"} : Passed(s)

\* a run that ended on a failing scraper with neither process nor upload started
WitFailFast ==
    /\ pc = "done"
    /\ \E s \in ScraperCats : Failed(s)
    /\ ~HasStarted("process")
    /\ ~HasStarted("upload")

\* C2: a nonzero exit of cleanup-pre does not halt the run: once the run is
\* over, the cleanup failure line is in the log and the first scraper was started.
CexCleanupPreNonFatal ==
    (pc = "done" /\ Failed("cleanup_pre")) =>
        (Logged("fail", "cleanup_pre") /\ HasStarted("staff_org"))

\* C3: when every mandatory stage exited zero and cleanup-post exited nonzero,
\* the run ends with the non-critical failure line, the success banner and exit code 0.
CexCleanupPostNonFatal ==
    (pc = "done" /\ Failed("cleanup_post") /\ \A s \in MandatoryStages : Passed(s)) =>
        (Logged("fail", "cleanup_post") /\ Logged("success", "end") /\ exitCode = 0)

\* C4: a finished run is either completed (exit 0, banner) or aborted (nonzero
\* exit, no banner); completed exactly when every mandatory stage exited zero,
\* aborted exactly when some mandatory stage exited nonzero, whatever the cleanups did.
CexTerminalStates ==
    pc = "done" =>
        /\ Completed # Aborted
        /\ Completed <=> \A s \in MandatoryStages : Passed(s)
        /\ Aborted <=> \E s \in MandatoryStages : Failed(s)

\* C5: when the run is over, the failure line of every mandatory stage that
\* exited nonzero is in the run's log file.
CexFailureLogged ==
    pc = "done" => \A s \in MandatoryStages : Failed(s) => Logged("fail", s)

\* C6: the stages of a run start in the order cleanup-pre, staff/org, news,
\* equipment, tenders, events, process, upload, cleanup-post, each at most once
\* and none skipped, and a stage starts only when the command of the stage
\* before it has exited.
ThmStageOrder ==
    LET order == <<"cleanup_pre", "staff_org", "news", "equipment", "tenders",
                   "events", "process", "upload", "cleanup_post">>
    IN  /\ Len(started) <= Len(order)
        /\ \A i \in 1..Len(started) : started[i] = order[i]
        /\ \A i \in 1..(Len(started) - 1) : results[started[i]] # NoRc
        /\ \A s \in Range(order) : results[s] # NoRc => HasStarted(s)

\* a second run in which all nine stages were started
WitStageOrder == runs = 2 /\ pc = "done" /\ Len(started) = 9

\* ------------------------------------- properties of the retention and janitor
Planned == planFor # NoPlan

Marked == PlanFiles(plan)

OfCategory(L, c) == {f \in L : f.base = c}

\* C7: no plan and no execution report ever names the protected file, and no
\* step removes it from the file system, whatever its age, whatever pattern its
\* name matches, and also when the janitor is handed a stale plan that names it.
ThmProtectedNeverDeleted ==
    /\ [](\A i \in 1..Len(plan) : ~IsProtected(plan[i].file))
    /\ [](\A i \in 1..Len(report) : ~IsProtected(report[i].file))
    /\ [][\A f \in fs : IsProtected(f) => f \in fs']_vars

\* a pass over processed/ has deleted a knowledge base while the protected file,
\* whose name matches the knowledge-base pattern and which is older than the
\* knowledge base that was kept, is still there
WitProtectedNeverDeleted ==
    /\ phase = [st |-> "passed", arg |-> "processed"]
    /\ collide = "knowledge_base"
    /\ \E i \in 1..Len(report) : report[i].outcome = "deleted"
    /\ \E f \in fs, g \in fs :
          IsProtected(f) /\ g.base = "knowledge_base" /\ g.dir = "processed" /\ f.ts < g.ts

\* C8: a plan marks, of the N >= 1 files of each keep-latest-1 category in the
\* directory, exactly N-1, and a file with the latest timestamp is among those
\* kept; it marks no unrecognised file and no file twice.
ThmKeepLatest ==
    Planned =>
        /\ \A c \in KeepLatestCats :
              LET Fc == OfCategory(planFor.listing, c)
              IN  Fc # {} =>
                     /\ Cardinality(Marked \cap Fc) = Cardinality(Fc) - 1
                     /\ \E k \in Fc \ Marked : \A g \in Fc : g.ts <= k.ts
        /\ \A f \in Marked : f \in planFor.listing /\ f.base \in Cats
        /\ Cardinality(Marked) = Len(plan)

\* a plan for raw/ holding two news files and a staff file: one file is marked
WitKeepLatest ==
    /\ Planned
    /\ planFor.dir = "raw"
    /\ Cardinality(OfCategory(planFor.listing, "news")) = 2
    /\ Cardinality(OfCategory(planFor.listing, "staff_org")) = 1
    /\ Len(plan) = 1

\* C9 as stated: the second of two plan calls in succession on an unchanged
\* directory returns the empty plan.
CexPlanTwiceEmpty == phase.st = "twice" => plan = <<>>

\* C9 amended: a plan call that follows a retention pass of the same directory
\* (plan, then execute of that plan with no deletion failing), with nothing
\* else in between, returns the empty plan.
ThmPlanAfterPassEmpty == phase.st = "replanned" => plan = <<>>

\* the plan call after a pass that deleted two files of the directory
WitPlanAfterPassEmpty ==
    /\ phase.st = "replanned"
    /\ Len(report) = 2
    /\ \A i \in 1..Len(report) : report[i].outcome = "deleted" /\ report[i].file.dir = phase.arg
    /\ planFor.listing # {}

\* C10: a plan marks a log file exactly when its timestamp is more than 7 days
\* before the time of the plan, however many log files the directory holds.
ThmLogsByAge ==
    Planned =>
        \A f \in OfCategory(planFor.listing, "log") :
            f \in Marked <=> planFor.at - f.ts > 7

\* a plan for logs/ holding one log older than 7 days, which is marked, and two
\* logs within the 7 days, which are not
WitLogsByAge ==
    /\ Planned
    /\ planFor.dir = "logs"
    /\ Cardinality(OfCategory(planFor.listing, "log") \cap Marked) = 1
    /\ Cardinality(OfCategory(planFor.listing, "log") \ Marked) = 2

\* ------------------------------------------ two instances of the script
\* the operating system lets the other instance of the script run: the
\* script state of the two changes places
Switch ==
    /\ other' = [pc |-> pc, stage |-> stage, status |-> status, exitCode |-> exitCode, logf |-> logf,
                 started |-> started, results |-> results, logName |-> logName]
    /\ pc' = other.pc
    /\ stage' = other.stage
    /\ status' = other.status
    /\ exitCode' = other.exitCode
    /\ logf' = other.logf
    /\ started' = other.started
    /\ results' = other.results
    /\ logName' = other.logName
    /\ UNCHANGED <<runs, fs, now, collide, retVars, clock, chatVars, bubbleVars>>

\* a second passes while an instance has not read the time for LOG_FILE yet
Tick ==
    /\ pc = "boot" \/ other.pc = "boot"
    /\ clock < MaxClock
    /\ clock' = clock + 1
    /\ UNCHANGED <<pipeVars, fs, now, collide, retVars, other, chatVars, bubbleVars>>

\* both instances are started on a day on which an older scrape and an
\* older knowledge base are there
InitConcurrent ==
    /\ InitCommon
    /\ collide = "none"
    /\ fs = {File("processed", ProtectedName, 0), File("raw", "news", 0),
             File("processed", "knowledge_base", 0)}

NextConcurrent ==
    \/ Boot
    \/ StageLaunch
    \/ \E rc \in ExitCodes : StageExit(rc)
    \/ StageCheck
    \/ Banner
    \/ Switch
    \/ Tick

SpecConcurrent == InitConcurrent /\ [][NextConcurrent]_vars

\* ------------------------------------------------ the message bubble
\* tokens of a message text: the fence of three backticks, the language tag json, the
\* brackets and comma of JSON, a key with its colon, a string value, null,
\* whitespace (Ws) and a word of prose
Fence == "fence"

LangTag == "json"

KeyTok == [tenders |-> "tenders:", events |-> "events:", title |-> "title:"]

RecognisedKeys == {"tenders", "events"}

JsonKeys == {"tenders", "events", "title"}

Min(S) == CHOOSE x \in S : \A y \in S : x <= y

\* \s* from position i on: the position of the first token that is not whitespace
RECURSIVE SkipWs(_, _)
SkipWs(t, i) == IF i <= Len(t) /\ t[i] = Ws THEN SkipWs(t, i + 1) ELSE i

At(t, i, tok) == i >= 1 /\ i <= Len(t) /\ t[i] = tok

NoMatch == [found |-> FALSE, from |-> 0, to |-> 0, capFrom |-> 0, capTo |-> 0]

\* codeBlockRegex tried at position i: fence (?:json)? \s* ( { .*? "key": .*? } ) \s* fence
CodeBlockAt(t, key, i) ==
    LET b  == SkipWs(t, IF At(t, i + 1, LangTag) THEN i + 2 ELSE i + 1)
        ks == {k \in (b + 1)..Len(t) : t[k] = KeyTok[key]}
        es == {e \in (Min(ks) + 1)..Len(t) : t[e] = "}" /\ At(t, SkipWs(t, e + 1), Fence)}
    IN  IF At(t, i, Fence) /\ At(t, b, "{") /\ ks # {} /\ es # {}
        THEN [found |-> TRUE, from |-> i, to |-> SkipWs(t, Min(es) + 1), capFrom |-> b, capTo |-> Min(es)]
        ELSE NoMatch

\* rawJsonRegex tried at position i: ( {"key": \s* \[ .*? \] \s* } )
RawJsonAt(t, key, i) ==
    LET b  == SkipWs(t, i + 2)
        es == {e \in (b + 1)..Len(t) : t[e] = "]" /\ At(t, SkipWs(t, e + 1), "}")}
    IN  IF At(t, i, "{") /\ At(t, i + 1, KeyTok[key]) /\ At(t, b, "[") /\ es # {}
        THEN [found |-> TRUE, from |-> i, to |-> SkipWs(t, Min(es) + 1), capFrom |-> i,
              capTo |-> SkipWs(t, Min(es) + 1)]
        ELSE NoMatch

\* text.match(codeBlockRegex): the match at the leftmost position that has one
CodeBlockMatch(t, key) ==
    LET starts == {i \in 1..Len(t) : CodeBlockAt(t, key, i).found}
    IN  IF starts = {} THEN NoMatch ELSE CodeBlockAt(t, key, Min(starts))

\* text.match(rawJsonRegex): the match at the leftmost position that has one
RawJsonMatch(t, key) ==
    LET starts == {i \in 1..Len(t) : RawJsonAt(t, key, i).found}
    IN  IF starts = {} THEN NoMatch ELSE RawJsonAt(t, key, Min(starts))

\* JSON values: what kind of value, its text and, for an array, its items
Undefined == [type |-> "undefined", src |-> <<>>, items |-> <<>>]

ParseFail == [ok |-> FALSE, next |-> 0, val |-> Undefined, members |-> <<>>]

RECURSIVE ParseValue(_, _)
RECURSIVE ParseItems(_, _, _, _, _)
RECURSIVE ParseMembers(_, _, _, _, _)

\* the items of an array opened at position open, from position i on
ParseItems(t, open, i, acc, mayClose) ==
    LET j == SkipWs(t, i)
        v == ParseValue(t, j)
        k == SkipWs(t, v.next)
    IN  IF At(t, j, "]")
        THEN IF mayClose
             THEN [ok |-> TRUE, next |-> j + 1, members |-> <<>>,
                   val |-> [type |-> "array", src |-> SubSeq(t, open, j), items |-> acc]]
             ELSE ParseFail
        ELSE IF ~v.ok THEN ParseFail
        ELSE IF At(t, k, ",") THEN ParseItems(t, open, k + 1, Append(acc, v.val.src), FALSE)
        ELSE IF At(t, k, "]")
        THEN [ok |-> TRUE, next |-> k + 1, members |-> <<>>,
              val |-> [type |-> "array", src |-> SubSeq(t, open, k), items |-> Append(acc, v.val.src)]]
        ELSE ParseFail

\* the members of an object opened at position open, from position i on
ParseMembers(t, open, i, acc, mayClose) ==
    LET j == SkipWs(t, i)
        keys == {c \in JsonKeys : At(t, j, KeyTok[c])}
        v == ParseValue(t, j + 1)
        k == SkipWs(t, v.next)
        more == Append(acc, [key |-> CHOOSE c \in keys : TRUE, val |-> v.val])
    IN  IF At(t, j, "}")
        THEN IF mayClose
             THEN [ok |-> TRUE, next |-> j + 1, members |-> acc,
                   val |-> [type |-> "object", src |-> SubSeq(t, open, j), items |-> <<>>]]
             ELSE ParseFail
        ELSE IF keys = {} \/ ~v.ok THEN ParseFail
        ELSE IF At(t, k, ",") THEN ParseMembers(t, open, k + 1, more, FALSE)
        ELSE IF At(t, k, "}")
        THEN [ok |-> TRUE, next |-> k + 1, members |-> more,
              val |-> [type |-> "object", src |-> SubSeq(t, open, k), items |-> <<>>]]
        ELSE ParseFail

\* the JSON value that starts at position i, after whitespace
ParseValue(t, i) ==
    LET j == SkipWs(t, i)
    IN  IF At(t, j, "str")
        THEN [ok |-> TRUE, next |-> j + 1, members |-> <<>>,
              val |-> [type |-> "string", src |-> <<"str">>, items |-> <<>>]]
        ELSE IF At(t, j, "null")
        THEN [ok |-> TRUE, next |-> j + 1, members |-> <<>>,
              val |-> [type |-> "null", src |-> <<"null">>, items |-> <<>>]]
        ELSE IF At(t, j, "[") THEN ParseItems(t, j, j + 1, <<>>, TRUE)
        ELSE IF At(t, j, "{") THEN ParseMembers(t, j, j + 1, <<>>, TRUE)
        ELSE ParseFail

\* JSON.parse(t): fails unless t is one JSON value and whitespace
JsonParse(t) ==
    LET v == ParseValue(t, 1)
    IN  IF v.ok /\ SkipWs(t, v.next) > Len(t) THEN v ELSE ParseFail

\* parsed[key]: the value of the last member named key, undefined if none
Get(parsed, key) ==
    LET is == {i \in 1..Len(parsed.members) : parsed.members[i].key = key}
    IN  IF is = {} THEN Undefined ELSE parsed.members[CHOOSE i \in is : \A j \in is : j <= i].val

\* if (value): objects, arrays and non-empty strings are truthy
Truthy(v) == v.type \in {"string", "array", "object"}

NoResult == [found |-> FALSE, data |-> Undefined, fullMatch |-> <<>>]

\* one try of extractJsonData: the capture of match m parsed, and parsed[key] truthy
Extracted(text, key, m) ==
    LET parsed == JsonParse(SubSeq(text, m.capFrom, m.capTo))
    IN  IF m.found /\ parsed.ok /\ Truthy(Get(parsed, key))
        THEN [found |-> TRUE, data |-> Get(parsed, key), fullMatch |-> SubSeq(text, m.from, m.to)]
        ELSE NoResult

\* extractJsonData(text, key): the fenced block first, raw JSON second, else null
extractJsonData(text, key) ==
    LET first == Extracted(text, key, CodeBlockMatch(text, key))
        second == Extracted(text, key, RawJsonMatch(text, key))
    IN  IF first.found THEN first ELSE second

\* text.replace(sub, ''): the first occurrence of sub is taken out
Replace(text, sub) ==
    LET is == {i \in 1..(Len(text) - Len(sub) + 1) : SubSeq(text, i, i + Len(sub) - 1) = sub}
    IN  IF is = {} \/ sub = <<>> THEN text
        ELSE SubSeq(text, 1, Min(is) - 1) \o SubSeq(text, Min(is) + Len(sub), Len(text))

\* the display text trimmed whether or not a payload was found
StripAlways(res, text) == Trim(Replace(text, res.fullMatch))

\* if (result) displayText = displayText.replace(result.fullMatch, '').trim()
StripIf(res, text) == IF res.found THEN Trim(Replace(text, res.fullMatch)) ELSE text

\* TenderCard: nothing for no or empty tenders, a card per element of an
\* array, and a TypeError (tenders.map is not a function) for anything else
TenderCard(tenders) ==
    IF tenders.type \in {"undefined", "null"} THEN [cards |-> <<>>, crashed |-> FALSE]
    ELSE IF tenders.type = "array" THEN [cards |-> tenders.items, crashed |-> FALSE]
    ELSE [cards |-> <<>>, crashed |-> TRUE]

\* what MessageBubble computes and renders for message
MessageBubble(message) ==
    LET tendersResult == extractJsonData(message.text, "tenders")
        afterTenders == StripIf(tendersResult, message.text)
        eventsResult == extractJsonData(afterTenders, "events")
        displayText == StripIf(eventsResult, afterTenders)
        card == IF Truthy(tendersResult.data) THEN TenderCard(tendersResult.data)
                ELSE [cards |-> <<>>, crashed |-> FALSE]
    IN  [st |-> "rendered",
         tenderData |-> tendersResult.data,
         eventData |-> eventsResult.data,
         displayText |-> displayText,
         prose |-> IF message.sender = "bot" THEN displayText ELSE message.text,
         cards |-> IF message.sender = "bot" THEN card.cards ELSE <<>>,
         crashed |-> message.sender = "bot" /\ card.crashed]

\* the message texts tried: up to MaxSegs pieces of prose, whitespace, code
\* blocks and JSON
Item == <<"{", KeyTok["title"], "str", "}">>

Obj(key, val) == <<"{", KeyTok[key]>> \o val \o <<"}">>

Fenced(body) == <<Fence, LangTag, Ws>> \o body \o <<Ws, Fence>>

Segments ==
    { <<"word">>,
      <<Ws>>,
      Fenced(Obj("tenders", <<"[">> \o Item \o <<"]">>)),
      Fenced(<<"{", Ws, KeyTok["tenders"], Ws, "[">> \o Item \o <<",", Ws>> \o Item \o <<"]", Ws, "}">>),
      Fenced(Obj("events", <<"[">> \o Item \o <<"]">>)),
      Obj("tenders", <<"[">> \o Item \o <<"]">>),
      Fenced(Obj("tenders", <<"[", "]">>)),
      Fenced(Obj("tenders", <<"null">>)),
      Fenced(Obj("tenders", <<"str">>)),
      Fenced(Obj("title", <<"str">>)),
      <<Fence, Ws, "word", Ws, Fence>>,
      Fenced(<<"{", KeyTok["tenders"], "[", "}">>) }

RECURSIVE Texts(_)
Texts(n) ==
    IF n = 0 THEN {<<>>}
    ELSE Texts(n - 1) \cup {t \o sg : t \in Texts(n - 1), sg \in Segments}

\* MessageBubble is rendered for its message
Render ==
    /\ bubble = NotRendered
    /\ bubble' = MessageBubble(bmsg)
    /\ UNCHANGED <<bmsg, chatVars, baseVars>>

InitBubble ==
    /\ InitPipeIdle
    /\ collide = "none"
    /\ fs = {File("processed", ProtectedName, 0)}
    /\ InitChat
    /\ InitConcIdle
    /\ bmsg \in {[text |-> t, sender |-> sd] : t \in Texts(MaxSegs), sd \in {"bot", "user"}}
    /\ bubble = NotRendered

NextBubble == Render

SpecBubble == InitBubble /\ [][NextBubble]_vars

\* ------------------------------------------- the directories after a run
DataFiles(d) == {f \in fs : f.dir = d /\ f.base # ".gitkeep"}

\* raw/ holds this run's scrape of each of the five types and nothing else,
\* processed/ this run's knowledge base and contacts.pdf and nothing else
OnlyLatestLeft ==
    /\ \A c \in ScraperCats : OfCategory(DataFiles("raw"), c) = {File("raw", c, now)}
    /\ Cardinality(DataFiles("raw")) = 5
    /\ OfCategory(DataFiles("processed"), "knowledge_base") = {File("processed", "knowledge_base", now)}
    /\ Cardinality(OfCategory(DataFiles("processed"), ProtectedName)) = 1
    /\ Cardinality(DataFiles("processed")) = 2

NoDeletionFailed == \A i \in 1..Len(report) : report[i].outcome = "deleted"

Contains(t, d) == \E i \in 1..(Len(t) - Len(d) + 1) : SubSeq(t, i, i + Len(d) - 1) = d

Last(q) == q[Len(q)]

\* the request r returns in this step
Settled(r) == r \in inflight /\ r.resp # NoResp /\ r \notin inflight'

\* a network failure, a non-2xx status or a body that is not JSON
RequestFails(resp) == resp.kind = "network" \/ (resp.kind = "http" /\ (~resp.ok \/ ~resp.parsable))

ErrorWithDetail(resp) == resp.kind = "http" /\ ~resp.ok /\ resp.parsable /\ resp.detail # <<>>

GenericBotMessage == [text |-> GenericError, sender |-> "bot"]

\* C12 as stated: every request carries the messages on display when it is
\* sent, in order, followed by the new user message, as {role, content}.
CexFullHistory ==
    \A r \in inflight :
        r.history = ToHistory(Append(r.shown, [text |-> r.question, sender |-> "user"]))

\* C13: whenever a chat request fails (network, non-2xx, unparsable body),
\* exactly one bot message with the fixed retry text is appended and the
\* error goes to the console.
ThmFailureGeneric ==
    [][\A r \in inflight :
           (Settled(r) /\ RequestFails(r.resp)) =>
               /\ messages' = Append(messages, GenericBotMessage)
               /\ Len(console') > Len(console)
               /\ Last(console').text = sendMessageToAPI(r.resp).value]_vars

\* a response with status 200 whose body is not JSON has been answered with
\* the retry text
WitFailureGeneric ==
    /\ messages # <<>>
    /\ Last(messages) = GenericBotMessage
    /\ console # <<>>
    /\ Last(console) = [by |-> "ChatContainer", text |-> <<"SyntaxError">>]

\* C14 as stated: on a non-2xx response the detail field of the body is
\* shown to the user.
CexDetailShown ==
    [][\A r \in inflight :
           (Settled(r) /\ ErrorWithDetail(r.resp)) =>
               Contains(Last(messages').text, r.resp.detail)]_vars

\* C14 amended: on a non-2xx response the detail field goes into the error
\* that is printed on the console and the user gets the retry text; on a
\* network failure the user gets the retry text too.
ThmDetailToConsole ==
    [][\A r \in inflight :
           /\ (Settled(r) /\ ErrorWithDetail(r.resp)) =>
                  /\ Last(messages') = GenericBotMessage
                  /\ ~Contains(Last(messages').text, r.resp.detail)
                  /\ Last(console').by = "ChatContainer"
                  /\ Contains(Last(console').text, r.resp.detail)
           /\ (Settled(r) /\ r.resp.kind = "network") =>
                  Last(messages') = GenericBotMessage]_vars

\* a 500 with detail "d" has been answered: the detail is on the console,
\* the retry text in the conversation
WitDetailToConsole ==
    /\ messages # <<>>
    /\ Last(messages) = GenericBotMessage
    /\ console # <<>>
    /\ Last(console) = [by |-> "ChatContainer", text |-> <<"API Error", "500", "d">>]

\* C20 as stated: at most one chat request is outstanding at any time and
\* isLoading is true exactly while one is.
CexOneOutstanding ==
    /\ Cardinality(inflight) <= 1
    /\ isLoading <=> (inflight # {})

\* ------------------------------------------------ payloads in bot messages
HasKey(parsed, key) == \E i \in 1..Len(parsed.members) : parsed.members[i].key = key

\* the places of text where a JSON object with a member named key stands
ObjectSpans(t, key) ==
    {sp \in (1..Len(t)) \X (1..Len(t)) :
        /\ sp[1] < sp[2]
        /\ t[sp[1]] = "{"
        /\ t[sp[2]] = "}"
        /\ JsonParse(SubSeq(t, sp[1], sp[2])).ok
        /\ HasKey(JsonParse(SubSeq(t, sp[1], sp[2])), key)}

EmbedsPayload(t, key) == ObjectSpans(t, key) # {}

\* the fenced blocks of text whose content is a JSON object with a member
\* named key: where the block starts and ends, and the value of the member
FencedBlocks(t, key) ==
    {[from |-> pr[1], to |-> SkipWs(t, pr[2][2] + 1),
      value |-> Get(JsonParse(SubSeq(t, pr[2][1], pr[2][2])), key)] :
        pr \in {pr \in {i \in 1..Len(t) : t[i] = Fence} \X ObjectSpans(t, key) :
                  /\ pr[2][1] = SkipWs(t, IF At(t, pr[1] + 1, LangTag) THEN pr[1] + 2 ELSE pr[1] + 1)
                  /\ At(t, SkipWs(t, pr[2][2] + 1), Fence)}}

Without(t, from, to) == SubSeq(t, 1, from - 1) \o SubSeq(t, to + 1, Len(t))

RenderedBot == bubble # NotRendered /\ bmsg.sender = "bot"

\* C15: a bot message that embeds no payload with a recognised key is
\* displayed with exactly its text, untrimmed, and without card data.
ThmPlainTextUntouched ==
    (RenderedBot /\ \A key \in RecognisedKeys : ~EmbedsPayload(bmsg.text, key)) =>
        /\ bubble.prose = bmsg.text
        /\ bubble.tenderData = Undefined
        /\ bubble.eventData = Undefined
        /\ bubble.cards = <<>>
        /\ ~bubble.crashed

\* a bot message that starts and ends with whitespace and holds a fenced
\* block with "tenders": that is not JSON has been rendered as it is
WitPlainTextUntouched ==
    /\ RenderedBot
    /\ \A key \in RecognisedKeys : ~EmbedsPayload(bmsg.text, key)
    /\ Len(bmsg.text) > 2
    /\ bmsg.text[1] = Ws
    /\ bmsg.text[Len(bmsg.text)] = Ws
    /\ \E i \in 1..Len(bmsg.text) : bmsg.text[i] = KeyTok["tenders"]
    /\ bubble.prose = bmsg.text

\* C16 as stated: for a bot message with a fenced JSON block that parses to
\* an object with key tenders, the tender list is built from the value of
\* that key and the prose displayed is the text with exactly that block
\* taken out.
CexTendersBlock ==
    (RenderedBot /\ FencedBlocks(bmsg.text, "tenders") # {}) =>
        \E blk \in FencedBlocks(bmsg.text, "tenders") :
            /\ bubble.prose = Without(bmsg.text, blk.from, blk.to)
            /\ bubble.tenderData = blk.value
            /\ bubble.cards = blk.value.items
            /\ ~bubble.crashed

\* C17 as stated: every payload with a recognised key (tenders, events)
\* that is stripped from the text is rendered as cards, one per element.
CexStrippedIsRendered ==
    RenderedBot =>
        /\ ~bubble.crashed
        /\ Len(bubble.cards) = Len(bubble.tenderData.items) + Len(bubble.eventData.items)

\* ------------------------------------------------ two runs at a time
WritingStages == ScraperCats \cup CleanupStages \cup {"process"}

\* the instance with script state r is inside the command of one of stages
Inside(r, stages) == r.pc = "running" /\ Stages[r.stage] \in stages

Mine == [pc |-> pc, stage |-> stage]

ThmNoLock ==
    /\ (pc = "boot") => ENABLED Boot
    /\ (pc = "launch") => ENABLED StageLaunch

\* one instance is inside process while the other is inside a cleanup that
\* has files to delete: both are in a stage that writes or deletes files
WitNoLock ==
    /\ Inside(Mine, {"process"})
    /\ Inside(other, CleanupStages)
    /\ Inside(Mine, WritingStages) /\ Inside(other, WritingStages)
    /\ FullPlan(fs, now) # <<>>

\* ------------------------------------------------ the conversation
\* a is what is left of b after taking some of its elements out
RECURSIVE IsSubSeq(_, _)
IsSubSeq(a, b) ==
    IF a = <<>> THEN TRUE
    ELSE IF b = <<>> THEN FALSE
    ELSE IF Head(a) = Head(b) THEN IsSubSeq(Tail(a), Tail(b))
    ELSE IsSubSeq(a, Tail(b))

AllWs(t) == \A i \in 1..Len(t) : t[i] = Ws

\* t is s without the whitespace at its two ends
IsTrimOf(t, s) ==
    /\ t # <<>> => (t[1] # Ws /\ t[Len(t)] # Ws)
    /\ \E i \in 0..Len(s), j \in 0..Len(s) :
          /\ i + Len(t) + j = Len(s)
          /\ AllWs(SubSeq(s, 1, i))
          /\ SubSeq(s, i + 1, i + Len(t)) = t
          /\ AllWs(SubSeq(s, i + Len(t) + 1, Len(s)))

\* C21 as stated: the conversation is append-only: every message that was
\* in the list is still in it after any step, in the same relative order.
CexAppendOnly == [][IsSubSeq(messages, messages')]_vars

\* C22 as stated (its safety part): the conversation strictly alternates
\* user and bot messages, starting with a user message.
CexAlternates ==
    \A i \in 1..Len(messages) :
        messages[i].sender = (IF i % 2 = 1 THEN "user" ELSE "bot")

\* C23: handleSend changes nothing and sends nothing when the input is
\* empty or whitespace or a request is loading; otherwise it appends a user
\* message with the input trimmed, clears the input, sets isLoading and
\* sends one request with that question.
ThmSendGuard ==
    [][handleSend =>
          IF AllWs(inputText) \/ isLoading
          THEN /\ messages' = messages
               /\ inputText' = inputText
               /\ isLoading' = isLoading
               /\ inflight' = inflight
          ELSE /\ Len(messages') = Len(messages) + 1
               /\ SubSeq(messages', 1, Len(messages)) = messages
               /\ Last(messages').sender = "user"
               /\ IsTrimOf(Last(messages').text, inputText)
               /\ inputText' = <<>>
               /\ isLoading'
               /\ Cardinality(inflight' \ inflight) = 1
               /\ \A r \in inflight' \ inflight :
                     r.question = Last(messages').text /\ r.resp = NoResp]_vars

\* handleSend has sent the question typed and set isLoading: a further
\* handleSend finds a request loading and the input empty
WitSendGuard ==
    /\ messages = <<[text |-> <<"q">>, sender |-> "user"]>>
    /\ inputText = <<>>
    /\ isLoading
    /\ Cardinality(inflight) = 1
    /\ timers = <<>>

====
